---- MODULE Spec2Model ----
(***************************************************************************)
(* Model of tests/benchmark/benchmark_gptq.py: the GPTQ benchmark script.  *)
(* The script is straight-line code: it parses the command line, selects   *)
(* the execution grid, checks the environment, loads tokenizer and model,  *)
(* opens the CSV log and then, for every combination of the grid, runs the *)
(* memory sub-benchmark and the latency sub-benchmark and writes one row.  *)
(* Everything the script does not own (the accelerator, the model, the     *)
(* memory tracker, the clock, the file system) is an environment whose     *)
(* answers are chosen nondeterministically from small sets.                *)
(*                                                                         *)
(* Optional values (Python None) are sequences: <<>> is None, <<v>> is v.  *)
(* A text file is a sequence of lines; a CSV line is the sequence of its   *)
(* comma-separated fields, each field the string the script formats.       *)
(***************************************************************************)
EXTENDS Integers, Sequences, FiniteSets, TLC

VARIABLES
    args,             \* argparse namespace (lines 231-232), immutable
    env,              \* torch.cuda.is_available(), os.environ, and the log
                      \* file an earlier run left (None if there is none)
    disk,             \* file system: file name -> None | <<lines>>
    pc,               \* position of the script
    error,            \* the uncaught exception that ended the run, "" if none
    batch_sizes, prompt_lengths, new_tokens,   \* the grid (lines 234-245)
    tokenizer_loaded, model_loaded,            \* from_pretrained has returned
    task, is_decoder, autoclass,               \* lines 262-277
    act_order, bits, group_size, kernel,       \* lines 279-300
    load_time,        \* None | <<binary64>>, seconds
    file_name,        \* lines 333-338, "" before
    output_open,      \* output_file is open
    out_buffer,       \* lines written to output_file and not yet on disk
    bi, pi, ni,       \* positions of the three nested for loops (1-based)
    gen_config,       \* value returned by warmup: None | <<[min, max]>>
    res_len,          \* res.shape[1] of the last generative warmup, None before
    max_mem,          \* value returned by benchmark_memory: None | <<binary64>>
    latencies_ms,     \* timing_cuda's list `latencies`
    mean_latency,     \* value returned by benchmark_latency: None | <<binary64>>
    peak_allocated, peak_reserved,   \* torch.cuda.memory_stats() peaks, bytes
    peak_nvml_mb,     \* memory_tracker.peak_memory, MB, None before a tracked block
    ops               \* device and model operations issued in this combination

vars == <<args, env, disk, pc, error, batch_sizes, prompt_lengths, new_tokens,
          tokenizer_loaded, model_loaded, task, is_decoder, autoclass,
          act_order, bits, group_size, kernel, load_time, file_name,
          output_open, out_buffer, bi, pi, ni, gen_config, res_len, max_mem,
          latencies_ms, mean_latency, peak_allocated, peak_reserved,
          peak_nvml_mb, ops>>

None == <<>>
Some(v) == <<v>>

(***************************************************************************)
(* Bounds and input sets.                                                  *)
(***************************************************************************)
\* largest --num-batches explored; the counts run from 1 (with a count of 0
\* or less the timed loop is empty, np.mean of the empty list is nan and the
\* row holds "nan")
MaxNumBatches == 2

\* --batch-size, --prompt-length, --new-tokens: values the sweep does not
\* use, and values it does with no new token at all
CliValues == {[batch_size |-> 2, prompt_length |-> 128, new_tokens |-> 32],
              [batch_size |-> 16, prompt_length |-> 512, new_tokens |-> 0]}
ModelIds == {<<"o", "/", "m">>}
GptqModelValues == {None, Some(""), Some("q")}
\* the GPTQ options of the command line: they vary in the GPTQ runs of one
\* combination; a sweep runs without GPTQ
GptqOptions ==
    {[gptq |-> FALSE, gptq_model |-> None, disable_exllama |-> FALSE]}
        \cup [gptq : {TRUE}, gptq_model : GptqModelValues, disable_exllama : BOOLEAN]
ArgTaskValues == {None, Some(""), Some("text-generation"), Some("fill-mask")}
\* what TasksManager.infer_task_from_model may answer
InferredTasks == {"text2text-generation", "fill-mask"}
\* CUDA_VISIBLE_DEVICES: unset, "", "0", "0,1", "0,"
CudaVisibleValues == {None, Some(<<>>), Some(<<"0">>),
                      Some(<<"0", ",", "1">>), Some(<<"0", ",">>)}
\* content of a log file left by an earlier run
OldLines == << <<"stale">> >>
\* quantization_config.json
QuantizeConfigs == {[desc_act |-> d, bits |-> 4, group_size |-> 128] : d \in BOOLEAN}
\* load_end - load_start, ns
LoadNs == {1250000000}
\* memory the loaded model holds when nothing runs, bytes
ModelFootprint == [allocated |-> 1000000, reserved |-> 1000000]
\* peaks (allocated, reserved) one model call may reach, bytes
PeakUsages == {[allocated |-> 2500000, reserved |-> 3000000]}
\* memory_tracker.peak_memory after the tracked block, MB
NvmlPeaks == {3, 5}
\* start_event.elapsed_time(end_event), ms
ElapsedMs == {2, 4}

(***************************************************************************)
(* Pure helpers.                                                           *)
(***************************************************************************)
Max(a, b) == IF a >= b THEN a ELSE b
Min(a, b) == IF a <= b THEN a ELSE b

\* s.split(sep) on a sequence of characters: the sequence of tokens
RECURSIVE Split(_, _)
Split(s, sep) ==
    IF s = <<>> THEN << <<>> >>
    ELSE LET rest == Split(Tail(s), sep) IN
         IF Head(s) = sep THEN << <<>> >> \o rest
         ELSE << <<Head(s)>> \o Head(rest) >> \o Tail(rest)

\* s.replace(old, new) on a sequence of characters
RECURSIVE Replace(_, _, _)
Replace(s, old, new) ==
    IF s = <<>> THEN <<>>
    ELSE <<(IF Head(s) = old THEN new ELSE Head(s))>> \o Replace(Tail(s), old, new)

\* the string a sequence of characters spells
RECURSIVE Text(_)
Text(s) == IF s = <<>> THEN "" ELSE Head(s) \o Text(Tail(s))

\* bool() of an optional string: None and "" are false
Truthy(o) == o # None /\ o[1] # ""

\* str() of a bool, of an optional bool, int or string
StrBool(b) == IF b THEN "True" ELSE "False"
StrOptBool(o) == IF o = None THEN "None" ELSE StrBool(o[1])
StrOptInt(o) == IF o = None THEN "None" ELSE ToString(o[1])
StrOptStr(o) == IF o = None THEN "None" ELSE o[1]

(***************************************************************************)
(* Natural numbers of any size: the sequence of their digits in base       *)
(* 2^15, least significant first, without leading zeros (0 is <<>>).       *)
(***************************************************************************)
LimbBits == 15
Base == 32768

RECURSIVE NatOf(_)
NatOf(n) == IF n = 0 THEN <<>> ELSE <<n % Base>> \o NatOf(n \div Base)

RECURSIVE NatTrim(_)
NatTrim(a) ==
    IF a = <<>> \/ a[Len(a)] # 0 THEN a ELSE NatTrim(SubSeq(a, 1, Len(a) - 1))

\* -1, 0, 1 as a < b, a = b, a > b
RECURSIVE NatCmp(_, _)
NatCmp(a, b) ==
    IF Len(a) # Len(b) THEN (IF Len(a) < Len(b) THEN -1 ELSE 1)
    ELSE IF a = <<>> THEN 0
    ELSE IF a[Len(a)] # b[Len(b)] THEN (IF a[Len(a)] < b[Len(b)] THEN -1 ELSE 1)
    ELSE NatCmp(SubSeq(a, 1, Len(a) - 1), SubSeq(b, 1, Len(b) - 1))

RECURSIVE NatAddC(_, _, _)
NatAddC(a, b, c) ==
    IF a = <<>> /\ b = <<>> THEN NatOf(c)
    ELSE LET x == (IF a = <<>> THEN 0 ELSE Head(a))
                    + (IF b = <<>> THEN 0 ELSE Head(b)) + c
         IN  <<x % Base>> \o NatAddC(IF a = <<>> THEN <<>> ELSE Tail(a),
                                     IF b = <<>> THEN <<>> ELSE Tail(b),
                                     x \div Base)

NatAdd(a, b) == NatAddC(a, b, 0)

\* a - b - w for a >= b + w, leading zeros kept
RECURSIVE NatSubB(_, _, _)
NatSubB(a, b, w) ==
    IF a = <<>> THEN <<>>
    ELSE LET x == Head(a) - (IF b = <<>> THEN 0 ELSE Head(b)) - w
         IN  <<(x + Base) % Base>>
                 \o NatSubB(Tail(a), IF b = <<>> THEN <<>> ELSE Tail(b),
                            IF x < 0 THEN 1 ELSE 0)

NatSub(a, b) == NatTrim(NatSubB(a, b, 0))

\* a * k + c for 0 < k <= Base, 0 <= c < Base
RECURSIVE NatMulSmallC(_, _, _)
NatMulSmallC(a, k, c) ==
    IF a = <<>> THEN NatOf(c)
    ELSE LET x == Head(a) * k + c
         IN  <<x % Base>> \o NatMulSmallC(Tail(a), k, x \div Base)

NatMulSmall(a, k) == IF k = 0 THEN <<>> ELSE NatMulSmallC(a, k, 0)

RECURSIVE NatMul(_, _)
NatMul(a, b) ==
    IF a = <<>> \/ b = <<>> THEN <<>>
    ELSE LET t == NatMul(a, Tail(b))
         IN  NatAdd(NatMulSmall(a, Head(b)), IF t = <<>> THEN <<>> ELSE <<0>> \o t)

\* <<a div k, a mod k>> for 0 < k <= Base
RECURSIVE NatDivModSmall(_, _)
NatDivModSmall(a, k) ==
    IF a = <<>> THEN << <<>>, 0 >>
    ELSE LET hi == NatDivModSmall(Tail(a), k)
             x == hi[2] * Base + Head(a)
         IN  << (IF hi[1] = <<>> /\ x \div k = 0 THEN <<>> ELSE <<x \div k>> \o hi[1]),
                x % k >>

\* a * 2^n and a div 2^n
NatShl(a, n) ==
    IF a = <<>> THEN <<>>
    ELSE [i \in 1..(n \div LimbBits) |-> 0] \o NatMulSmall(a, 2^(n % LimbBits))

NatShr(a, n) ==
    IF n \div LimbBits >= Len(a) THEN <<>>
    ELSE NatDivModSmall(SubSeq(a, n \div LimbBits + 1, Len(a)), 2^(n % LimbBits))[1]

RECURSIVE IntBitLen(_)
IntBitLen(n) == IF n = 0 THEN 0 ELSE 1 + IntBitLen(n \div 2)

NatBitLen(a) ==
    IF a = <<>> THEN 0 ELSE (Len(a) - 1) * LimbBits + IntBitLen(a[Len(a)])

\* the digit d with d * b <= r < (d + 1) * b, searched downwards from d
RECURSIVE QuotientDigit(_, _, _)
QuotientDigit(r, b, d) ==
    IF NatCmp(NatMulSmall(b, d), r) <= 0 THEN d ELSE QuotientDigit(r, b, d - 1)

\* an upper estimate of that digit from the leading digits of r and b
DigitEstimate(r, b) ==
    LET n == Len(b)
        top == (IF Len(r) > n THEN r[n + 1] * Base ELSE 0)
                 + (IF Len(r) >= n THEN r[n] ELSE 0)
    IN  Min(Base - 1, top \div b[n])

\* <<a div b, a mod b>> for b whose leading digit is at least Base / 2
RECURSIVE NatDivModN(_, _)
NatDivModN(a, b) ==
    IF a = <<>> THEN << <<>>, <<>> >>
    ELSE LET hi == NatDivModN(Tail(a), b)
             r == NatTrim(<<Head(a)>> \o hi[2])
             d == QuotientDigit(r, b, DigitEstimate(r, b))
         IN  << (IF hi[1] = <<>> /\ d = 0 THEN <<>> ELSE <<d>> \o hi[1]),
                NatSub(r, NatMulSmall(b, d)) >>

\* <<a div b, a mod b>> for b > 0
NatDivMod(a, b) ==
    LET s == LimbBits - IntBitLen(b[Len(b)])
        qr == NatDivModN(NatShl(a, s), NatShl(b, s))
    IN  << qr[1], NatShr(qr[2], s) >>

\* the decimal digits of a, as a string ("" for 0)
RECURSIVE NatDecimal(_)
NatDecimal(a) ==
    IF a = <<>> THEN ""
    ELSE LET qr == NatDivModSmall(a, 10) IN NatDecimal(qr[1]) \o ToString(qr[2])

(***************************************************************************)
(* IEEE 754 binary64 values, as Python's float and numpy's float64 compute *)
(* them: sign * m * 2^e with m = 0 or 2^52 <= m < 2^53, or an infinity, or *)
(* nan.  Results are rounded to nearest, ties to even.  The exponent is    *)
(* unbounded: overflow and subnormal numbers are out of reach of the       *)
(* quantities of the script.                                               *)
(***************************************************************************)
MantBits == 53

F64(s, m, e) == [kind |-> "finite", sign |-> s, m |-> m, e |-> e]
F64Zero == F64(1, <<>>, 0)
F64NaN == [kind |-> "nan", sign |-> 1, m |-> <<>>, e |-> 0]
F64Inf(s) == [kind |-> "inf", sign |-> s, m |-> <<>>, e |-> 0]

IsZero(x) == x.kind = "finite" /\ x.m = <<>>

\* the binary64 nearest to s * n * 2^e
F64Round(s, n, e) ==
    IF n = <<>> THEN F64Zero
    ELSE LET len == NatBitLen(n) IN
         IF len <= MantBits
         THEN F64(s, NatShl(n, MantBits - len), e - (MantBits - len))
         ELSE LET sh == len - MantBits
                  q == NatShr(n, sh)
                  c == NatCmp(NatSub(n, NatShl(q, sh)), NatShl(<<1>>, sh - 1))
                  q1 == IF c > 0 \/ (c = 0 /\ q[1] % 2 = 1)
                        THEN NatAdd(q, <<1>>) ELSE q
              IN  IF NatBitLen(q1) > MantBits
                  THEN F64(s, NatShr(q1, 1), e + sh + 1)
                  ELSE F64(s, q1, e + sh)

\* float(n) of an int
F64FromInt(n) == F64Round(IF n < 0 THEN -1 ELSE 1, NatOf(IF n < 0 THEN -n ELSE n), 0)

F64Neg(x) == IF x.kind = "nan" \/ IsZero(x) THEN x ELSE [x EXCEPT !.sign = -x.sign]

\* x * y
F64Mul(x, y) ==
    IF x.kind = "nan" \/ y.kind = "nan" THEN F64NaN
    ELSE IF x.kind = "inf" \/ y.kind = "inf"
         THEN (IF IsZero(x) \/ IsZero(y) THEN F64NaN ELSE F64Inf(x.sign * y.sign))
    ELSE F64Round(x.sign * y.sign, NatMul(x.m, y.m), x.e + y.e)

\* x / y, numpy's: a division by zero gives an infinity or nan
F64Div(x, y) ==
    IF x.kind = "nan" \/ y.kind = "nan" THEN F64NaN
    ELSE IF x.kind = "inf"
         THEN (IF y.kind = "inf" THEN F64NaN ELSE F64Inf(x.sign * y.sign))
    ELSE IF y.kind = "inf" THEN F64Zero
    ELSE IF IsZero(y)
         THEN (IF IsZero(x) THEN F64NaN ELSE F64Inf(x.sign))
    ELSE IF IsZero(x) THEN F64Zero
    ELSE LET qr == NatDivMod(NatShl(x.m, MantBits + 2), y.m)
             \* the quotient with one more bit that tells an inexact division
             n == NatAdd(NatShl(qr[1], 1), IF qr[2] = <<>> THEN <<>> ELSE <<1>>)
         IN  F64Round(x.sign * y.sign, n, x.e - y.e - MantBits - 3)

\* x + y
F64Add(x, y) ==
    IF x.kind = "nan" \/ y.kind = "nan" THEN F64NaN
    ELSE IF x.kind = "inf"
         THEN (IF y.kind = "inf" /\ y.sign # x.sign THEN F64NaN ELSE x)
    ELSE IF y.kind = "inf" THEN y
    ELSE IF IsZero(x) THEN y
    ELSE IF IsZero(y) THEN x
    ELSE LET e == Min(x.e, y.e)
             a == NatShl(x.m, x.e - e)
             b == NatShl(y.m, y.e - e)
         IN  IF x.sign = y.sign THEN F64Round(x.sign, NatAdd(a, b), e)
             ELSE IF NatCmp(a, b) >= 0 THEN F64Round(x.sign, NatSub(a, b), e)
             ELSE F64Round(y.sign, NatSub(b, a), e)

\* x - y
F64Sub(x, y) == F64Add(x, F64Neg(y))

\* x > 0
F64Positive(x) == x.kind # "nan" /\ x.sign = 1 /\ ~IsZero(x)

\* the literals 1e-3, 1e-6, 1e-9: the binary64 nearest to the decimal
F64_1e_3 == F64Div(F64FromInt(1), F64FromInt(1000))
F64_1e_6 == F64Div(F64FromInt(1), F64FromInt(1000000))
F64_1e_9 == F64Div(F64FromInt(1), F64FromInt(1000000000))

\* |x| * 100 rounded to the nearest integer, ties to even, for a finite x
Hundredths(x) ==
    LET n == NatMulSmall(x.m, 100) IN
    IF x.e >= 0 THEN NatShl(n, x.e)
    ELSE IF -x.e > NatBitLen(n) + 1 THEN <<>>
    ELSE LET sh == -x.e
             q == NatShr(n, sh)
             c == NatCmp(NatSub(n, NatShl(q, sh)), NatShl(<<1>>, sh - 1))
         IN  IF c > 0 \/ (c = 0 /\ q # <<>> /\ q[1] % 2 = 1)
             THEN NatAdd(q, <<1>>) ELSE q

\* f"{x:.2f}"
Fmt2(x) ==
    IF x.kind = "nan" THEN "nan"
    ELSE IF x.kind = "inf" THEN (IF x.sign < 0 THEN "-inf" ELSE "inf")
    ELSE LET qr == NatDivModSmall(Hundredths(x), 100)
         IN  (IF x.sign < 0 THEN "-" ELSE "")
               \o (IF qr[1] = <<>> THEN "0" ELSE NatDecimal(qr[1]))
               \o "." \o (IF qr[2] < 10 THEN "0" ELSE "") \o ToString(qr[2])

(***************************************************************************)
(* The grid, the output file name and the CSV lines.                       *)
(***************************************************************************)
\* SelectedGrid with the two tests in the other order: --sweep overrides --prefill
SelectedGrid_SweepLast(a) ==
    LET cli == [batch_sizes |-> <<a.batch_size>>,
                prompt_lengths |-> <<a.prompt_length>>,
                new_tokens |-> <<a.new_tokens>>]
        prefilled == IF a.prefill THEN [cli EXCEPT !.new_tokens = <<1>>] ELSE cli
    IN  IF a.sweep
        THEN [batch_sizes |-> <<1, 2, 4, 8, 16>>, prompt_lengths |-> <<512>>,
              new_tokens |-> <<512>>]
        ELSE prefilled

\* lines 234-245: the grid the flags select
SelectedGrid(a) ==
    LET swept == IF a.sweep
                 THEN [batch_sizes |-> <<1, 2, 4, 8, 16>>,
                       prompt_lengths |-> <<512>>,
                       new_tokens |-> <<512>>]
                 ELSE [batch_sizes |-> <<a.batch_size>>,
                       prompt_lengths |-> <<a.prompt_length>>,
                       new_tokens |-> <<a.new_tokens>>]
    IN  IF a.prefill THEN [swept EXCEPT !.new_tokens = <<1>>] ELSE swept

\* lines 333-338
FileName(a) ==
    "log_" \o Text(Replace(a.model, "/", "-"))
           \o (IF a.gptq THEN "_gptq" ELSE "_nogptq") \o ".csv"

FileNames == {FileName([model |-> m, gptq |-> g]) : m \in ModelIds, g \in BOOLEAN}

\* line 341
Header ==
    <<"gptq", " act_order", " bits", " group_size", " kernel", " num_batches",
      " batch_size", " prompt_length", " new_tokens", " Load time (s)",
      " Per-token latency (ms)", " Throughput (tok/s)", " Max memory (MB)">>

\* lines 294-300
KernelFor(disable_exllama, desc_act) ==
    IF ~disable_exllama THEN "exllama"
    ELSE IF desc_act THEN "autotogptq-cuda"
    ELSE "autogptq-cuda-old"

\* line 320: (load_end - load_start) * 1e-9
LoadTime(ns) == F64Mul(F64FromInt(ns), F64_1e_9)

\* lines 206-207: a byte count * 1e-6
TorchMb(bytes) == F64Mul(F64FromInt(bytes), F64_1e_6)

\* lines 209-212: peak_nvml_mb - peak_reserved_torch_mb
PeakExternalMb(reserved_bytes, nvml_mb) ==
    F64Sub(F64FromInt(nvml_mb), TorchMb(reserved_bytes))

\* line 220: peak_allocated_torch_mb + peak_external_mb
PeakMemoryMb(allocated_bytes, reserved_bytes, nvml_mb) ==
    F64Add(TorchMb(allocated_bytes), PeakExternalMb(reserved_bytes, nvml_mb))

\* numpy's sum of a list of latencies (ms), added up in binary64
RECURSIVE F64Sum(_)
F64Sum(l) ==
    IF l = <<>> THEN F64Zero
    ELSE F64Add(F64Sum(SubSeq(l, 1, Len(l) - 1)), F64FromInt(l[Len(l)]))

\* line 111: np.mean(latencies); nan for the empty list
Mean(l) == IF l = <<>> THEN F64NaN ELSE F64Div(F64Sum(l), F64FromInt(Len(l)))

\* line 387: mean_latency / new_token
PerTokenLatency(mean, new_token) == F64Div(mean, F64FromInt(new_token))

\* line 390: batch_size / (per_token_latency * 1e-3)
Throughput(batch_size, ptl) == F64Div(F64FromInt(batch_size), F64Mul(ptl, F64_1e_3))

\* Line with the command line's batch size in place of the loop's
Line_CliBatchSize(batch_size, prompt_length, new_token) ==
    LET ptl == PerTokenLatency(mean_latency[1], new_token)
        thr == Throughput(batch_size, ptl)
    IN  <<StrBool(args.gptq), StrOptBool(act_order), StrOptInt(bits),
          StrOptInt(group_size), StrOptStr(kernel), ToString(args.num_batches),
          ToString(args.batch_size), ToString(prompt_length), ToString(new_token),
          Fmt2(load_time[1]), Fmt2(ptl), Fmt2(thr), Fmt2(max_mem[1])>>

\* Line with the peak memory field left out
Line_WithoutMemory(batch_size, prompt_length, new_token) ==
    LET ptl == PerTokenLatency(mean_latency[1], new_token)
        thr == Throughput(batch_size, ptl)
    IN  <<StrBool(args.gptq), StrOptBool(act_order), StrOptInt(bits),
          StrOptInt(group_size), StrOptStr(kernel), ToString(args.num_batches),
          ToString(batch_size), ToString(prompt_length), ToString(new_token),
          Fmt2(load_time[1]), Fmt2(ptl), Fmt2(thr)>>

\* lines 398-412: the fields of the row of one combination
Line(batch_size, prompt_length, new_token) ==
    LET ptl == PerTokenLatency(mean_latency[1], new_token)
        thr == Throughput(batch_size, ptl)
    IN  <<StrBool(args.gptq), StrOptBool(act_order), StrOptInt(bits),
          StrOptInt(group_size), StrOptStr(kernel), ToString(args.num_batches),
          ToString(batch_size), ToString(prompt_length), ToString(new_token),
          Fmt2(load_time[1]), Fmt2(ptl), Fmt2(thr), Fmt2(max_mem[1])>>

(***************************************************************************)
(* Process exit and the environment's operations.                          *)
(***************************************************************************)
\* what the file system holds once output_file's buffer is flushed (close(),
\* or the interpreter finalising the open file when the process ends)
Flushed ==
    IF output_open
    THEN [disk EXCEPT ![file_name] = Some(@[1] \o out_buffer)]
    ELSE disk

\* an uncaught exception: the process ends, open files are flushed
Raise(e) ==
    /\ pc' = "aborted"
    /\ error' = e
    /\ disk' = Flushed
    /\ out_buffer' = <<>>
    /\ output_open' = FALSE

\* one model.generate / model(...) call reaching the peaks u
ModelCall(u) ==
    /\ peak_allocated' = Max(peak_allocated, u.allocated)
    /\ peak_reserved' = Max(peak_reserved, u.reserved)

\* the name of the call the configuration makes (lines 100-103, 134/139, 197-200)
CallOp == IF is_decoder THEN "generate" ELSE "forward"

\* lengths model.generate may return for a prompt of p tokens and n new tokens
GenLengths(p, n) == {p + n, p + n - 1}

CurBatch == batch_sizes[bi]
CurPrompt == prompt_lengths[pi]
CurNew == new_tokens[ni]

(***************************************************************************)
(* Initial state: the command line, the environment, the file system.      *)
(***************************************************************************)
Init ==
    /\ \E g \in GptqOptions, c \in CliValues :
         args \in [sweep : IF g.gptq THEN {FALSE} ELSE BOOLEAN,
                   prefill : BOOLEAN, gptq : {g.gptq},
                   gptq_model : {g.gptq_model},
                   disable_exllama : {g.disable_exllama},
                   batch_size : {c.batch_size},
                   prompt_length : {c.prompt_length},
                   new_tokens : {c.new_tokens}, num_batches : 1..MaxNumBatches,
                   task : ArgTaskValues, model : ModelIds]
    /\ env \in [cuda_available : BOOLEAN, CUDA_VISIBLE_DEVICES : CudaVisibleValues,
                existing_log : {None, Some(OldLines)}]
    \* an empty device list hides every device from the runtime
    /\ env.CUDA_VISIBLE_DEVICES = Some(<<>>) => ~env.cuda_available
    /\ disk = [n \in FileNames |-> env.existing_log]
    /\ pc = "select_grid"
    /\ error = ""
    /\ batch_sizes = <<>> /\ prompt_lengths = <<>> /\ new_tokens = <<>>
    /\ tokenizer_loaded = FALSE /\ model_loaded = FALSE
    /\ task = "" /\ is_decoder = FALSE /\ autoclass = ""
    /\ act_order = None /\ bits = None /\ group_size = None /\ kernel = None
    /\ load_time = None
    /\ file_name = "" /\ output_open = FALSE /\ out_buffer = <<>>
    /\ bi = 1 /\ pi = 1 /\ ni = 1
    /\ gen_config = None /\ res_len = None /\ max_mem = None
    /\ latencies_ms = <<>> /\ mean_latency = None
    /\ peak_allocated = 0 /\ peak_reserved = 0 /\ peak_nvml_mb = None
    /\ ops = <<>>

(***************************************************************************)
(* Lines 231-349: everything before the sweep loop.                        *)
(***************************************************************************)
\* lines 234-245
SelectGrid ==
    /\ pc = "select_grid"
    /\ batch_sizes' = SelectedGrid(args).batch_sizes
    /\ prompt_lengths' = SelectedGrid(args).prompt_lengths
    /\ new_tokens' = SelectedGrid(args).new_tokens
    /\ pc' = "check_devices"
    /\ UNCHANGED <<args, env, disk, error, tokenizer_loaded, model_loaded, task,
                   is_decoder, autoclass, act_order, bits, group_size, kernel,
                   load_time, file_name, output_open, out_buffer, bi, pi, ni,
                   gen_config, res_len, max_mem, latencies_ms, mean_latency,
                   peak_allocated, peak_reserved, peak_nvml_mb, ops>>

\* DeviceCheckError without the test on the number of devices
DeviceCheckError_NoCountCheck(e) ==
    IF ~e.cuda_available THEN "ValueError: A cuda device is necessary"
    ELSE IF e.CUDA_VISIBLE_DEVICES = None THEN "KeyError: CUDA_VISIBLE_DEVICES"
    ELSE ""

\* lines 247-252: the exception the device checks raise, "" if they pass
DeviceCheckError(e) ==
    IF ~e.cuda_available THEN "ValueError: A cuda device is necessary"
    ELSE IF e.CUDA_VISIBLE_DEVICES = None THEN "KeyError: CUDA_VISIBLE_DEVICES"
    ELSE IF Len(Split(e.CUDA_VISIBLE_DEVICES[1], ",")) # 1
         THEN "ValueError: single device index"
    ELSE ""

CheckDevices ==
    /\ pc = "check_devices"
    /\ IF DeviceCheckError(env) # ""
       THEN Raise(DeviceCheckError(env))
       ELSE /\ pc' = "load_tokenizer"
            /\ UNCHANGED <<error, disk, out_buffer, output_open>>
    /\ UNCHANGED <<args, env, batch_sizes, prompt_lengths, new_tokens,
                   tokenizer_loaded, model_loaded, task, is_decoder, autoclass,
                   act_order, bits, group_size, kernel, load_time, file_name,
                   bi, pi, ni, gen_config, res_len, max_mem, latencies_ms, mean_latency,
                   peak_allocated, peak_reserved, peak_nvml_mb, ops>>

\* lines 267-277
AutoclassFor(t) ==
    IF t = "text-generation" THEN "AutoModelForCausalLM"
    ELSE IF t = "text2text-generation" THEN "AutoModelForSeq2SeqLM"
    ELSE "AutoModel"

IsDecoderTask(t) == t \in {"text-generation", "text2text-generation"}

\* lines 254-277: tokenizer load (which may fail), task, autoclass, is_decoder
LoadTokenizer ==
    /\ pc = "load_tokenizer"
    /\ \E ok \in BOOLEAN, inferred \in InferredTasks :
         IF ~ok
         THEN /\ Raise("OSError: tokenizer")
              /\ UNCHANGED <<tokenizer_loaded, task, is_decoder, autoclass>>
         ELSE LET t == IF Truthy(args.task) THEN args.task[1] ELSE inferred IN
              /\ tokenizer_loaded' = TRUE
              /\ task' = t
              /\ autoclass' = AutoclassFor(t)
              /\ is_decoder' = IsDecoderTask(t)
              /\ pc' = "check_gptq"
              /\ UNCHANGED <<error, disk, out_buffer, output_open>>
    /\ UNCHANGED <<args, env, batch_sizes, prompt_lengths, new_tokens,
                   model_loaded, act_order, bits, group_size, kernel, load_time,
                   file_name, bi, pi, ni, gen_config, res_len, max_mem, latencies_ms,
                   mean_latency, peak_allocated, peak_reserved, peak_nvml_mb, ops>>

\* lines 279-300: the --gptq-model check and quantization_config.json
CheckGptqModel ==
    /\ pc = "check_gptq"
    /\ IF ~args.gptq
       THEN /\ pc' = "load_model"
            /\ UNCHANGED <<error, disk, out_buffer, output_open,
                           act_order, bits, group_size, kernel>>
       ELSE IF ~Truthy(args.gptq_model)
       THEN /\ Raise("ValueError: --gptq-model needs to be provided")
            /\ UNCHANGED <<act_order, bits, group_size, kernel>>
       ELSE \E found \in BOOLEAN, q \in QuantizeConfigs :
              IF ~found
              THEN /\ Raise("FileNotFoundError: quantization_config.json")
                   /\ UNCHANGED <<act_order, bits, group_size, kernel>>
              ELSE /\ act_order' = Some(q.desc_act)
                   /\ bits' = Some(q.bits)
                   /\ group_size' = Some(q.group_size)
                   /\ kernel' = Some(KernelFor(args.disable_exllama, q.desc_act))
                   /\ pc' = "load_model"
                   /\ UNCHANGED <<error, disk, out_buffer, output_open>>
    /\ UNCHANGED <<args, env, batch_sizes, prompt_lengths, new_tokens,
                   tokenizer_loaded, model_loaded, task, is_decoder, autoclass,
                   load_time, file_name, bi, pi, ni, gen_config, res_len, max_mem,
                   latencies_ms, mean_latency, peak_allocated, peak_reserved, peak_nvml_mb, ops>>

\* lines 302-331: the model load (which may fail) and its timing
LoadModel ==
    /\ pc = "load_model"
    /\ \E ok \in BOOLEAN, ns \in LoadNs :
         IF ~ok
         THEN /\ Raise("OSError: model")
              /\ UNCHANGED <<model_loaded, load_time, peak_allocated,
                             peak_reserved, ops>>
         ELSE /\ model_loaded' = TRUE
              /\ load_time' = Some(LoadTime(ns))
              /\ peak_allocated' = ModelFootprint.allocated
              /\ peak_reserved' = ModelFootprint.reserved
              /\ ops' = ops \o <<"synchronize">>
              /\ pc' = "open_output"
              /\ UNCHANGED <<error, disk, out_buffer, output_open>>
    /\ UNCHANGED <<args, env, batch_sizes, prompt_lengths, new_tokens,
                   tokenizer_loaded, task, is_decoder, autoclass, act_order, bits,
                   group_size, kernel, file_name, bi, pi, ni, gen_config, res_len,
                   max_mem, latencies_ms, mean_latency, peak_nvml_mb>>

\* OpenOutputFile opening the log in append mode
OpenOutputFile_Append ==
    /\ pc = "open_output"
    /\ file_name' = FileName(args)
    /\ disk' = [disk EXCEPT ![FileName(args)] = IF @ = None THEN Some(<<>>) ELSE @]
    /\ output_open' = TRUE
    /\ out_buffer' = <<Header>>
    /\ pc' = "loop"
    /\ UNCHANGED <<args, env, error, batch_sizes, prompt_lengths, new_tokens,
                   tokenizer_loaded, model_loaded, task, is_decoder, autoclass,
                   act_order, bits, group_size, kernel, load_time, bi, pi, ni,
                   gen_config, res_len, max_mem, latencies_ms, mean_latency,
                   peak_allocated, peak_reserved, peak_nvml_mb, ops>>

\* lines 333-349: open(file_name, "w") truncates; the header is written
OpenOutputFile ==
    /\ pc = "open_output"
    /\ file_name' = FileName(args)
    /\ disk' = [disk EXCEPT ![FileName(args)] = Some(<<>>)]
    /\ output_open' = TRUE
    /\ out_buffer' = <<Header>>
    /\ pc' = "loop"
    /\ UNCHANGED <<args, env, error, batch_sizes, prompt_lengths, new_tokens,
                   tokenizer_loaded, model_loaded, task, is_decoder, autoclass,
                   act_order, bits, group_size, kernel, load_time, bi, pi, ni,
                   gen_config, res_len, max_mem, latencies_ms, mean_latency,
                   peak_allocated, peak_reserved, peak_nvml_mb, ops>>

(***************************************************************************)
(* Lines 351-417: the sweep loop.                                          *)
(***************************************************************************)
\* lines 356-357: what the top of the loop body issues to the device
ResetCountersOps == <<"empty_cache", "reset_peak_memory_stats">>

\* lines 351-360: the next combination starts
BeginCombination ==
    /\ pc = "loop"
    /\ bi <= Len(batch_sizes)
    /\ ops' = ResetCountersOps
    /\ peak_allocated' = ModelFootprint.allocated
    /\ peak_reserved' = ModelFootprint.reserved
    /\ pc' = "benchmark_memory"
    /\ UNCHANGED <<args, env, disk, error, batch_sizes, prompt_lengths, new_tokens,
                   tokenizer_loaded, model_loaded, task, is_decoder, autoclass,
                   act_order, bits, group_size, kernel, load_time, file_name,
                   output_open, out_buffer, bi, pi, ni, gen_config, res_len,
                   max_mem, latencies_ms, mean_latency, peak_nvml_mb>>

\* WarmupLengthOk with the assertion gone
WarmupLengthOk_Unchecked(length, new_token, prompt_length) == TRUE

\* line 135: the assertion on the length warmup's generate call returned
WarmupLengthOk(length, new_token, prompt_length) == length = new_token + prompt_length

\* lines 114-142: warmup, entered after the operations `before`; goes to `next`
Warmup(before, next) ==
    \E u \in PeakUsages, res_len_ \in GenLengths(CurPrompt, CurNew) :
      /\ ModelCall(u)
      /\ IF is_decoder
         THEN /\ gen_config' = Some([min_new_tokens |-> CurNew,
                                     max_new_tokens |-> CurNew])
              /\ res_len' = Some(res_len_)
              /\ IF WarmupLengthOk(res_len_, CurNew, CurPrompt)
                 THEN /\ ops' = ops \o before \o <<"generate", "synchronize">>
                      /\ pc' = next
                      /\ UNCHANGED <<error, disk, out_buffer, output_open>>
                 ELSE /\ ops' = ops \o before \o <<"generate">>
                      /\ Raise("AssertionError: warmup length")
         ELSE /\ gen_config' = None
              /\ UNCHANGED res_len
              /\ ops' = ops \o before \o <<"forward", "synchronize">>
              /\ pc' = next
              /\ UNCHANGED <<error, disk, out_buffer, output_open>>

\* lines 183-187: what benchmark_memory issues before its warmup
BenchmarkMemoryPrologue == <<"enter:benchmark_memory", "empty_cache", "track:start">>

\* lines 183-195: benchmark_memory up to the end of its warmup
BenchmarkMemoryWarmup ==
    /\ pc = "benchmark_memory"
    /\ Warmup(BenchmarkMemoryPrologue, "memory_measure")
    /\ UNCHANGED <<args, env, batch_sizes, prompt_lengths, new_tokens,
                   tokenizer_loaded, model_loaded, task, is_decoder, autoclass,
                   act_order, bits, group_size, kernel, load_time, file_name,
                   bi, pi, ni, max_mem, latencies_ms, mean_latency,
                   peak_nvml_mb>>

\* ExternalPeakOk accepting an external peak of zero
ExternalPeakOk_NonNegative(peak_external_mb) ==
    F64Positive(peak_external_mb) \/ IsZero(peak_external_mb)

\* line 213: the assertion on the externally visible peak
ExternalPeakOk(peak_external_mb) == F64Positive(peak_external_mb)

\* lines 197-228: the tracked call, the three samples, the derived peak
BenchmarkMemoryMeasure ==
    /\ pc = "memory_measure"
    /\ \E u \in PeakUsages, peak_nvml_mb_ \in NvmlPeaks :
         /\ ModelCall(u)
         /\ peak_nvml_mb' = Some(peak_nvml_mb_)
         /\ ops' = ops \o <<CallOp, "synchronize", "track:stop", "memory_stats">>
         /\ IF ExternalPeakOk(PeakExternalMb(Max(peak_reserved, u.reserved),
                                             peak_nvml_mb_))
            THEN /\ max_mem' = Some(PeakMemoryMb(Max(peak_allocated, u.allocated),
                                                 Max(peak_reserved, u.reserved),
                                                 peak_nvml_mb_))
                 /\ pc' = "benchmark_latency"
                 /\ UNCHANGED <<error, disk, out_buffer, output_open>>
            ELSE /\ Raise("AssertionError: peak external")
                 /\ UNCHANGED max_mem
    /\ UNCHANGED <<args, env, batch_sizes, prompt_lengths, new_tokens,
                   tokenizer_loaded, model_loaded, task, is_decoder, autoclass,
                   act_order, bits, group_size, kernel, load_time, file_name,
                   bi, pi, ni, gen_config, res_len, latencies_ms, mean_latency>>

\* lines 155-156: what benchmark_latency issues before its warmup
BenchmarkLatencyPrologue == <<"enter:benchmark_latency", "empty_cache">>

\* lines 155-165: benchmark_latency up to the end of its warmup
BenchmarkLatencyWarmup ==
    /\ pc = "benchmark_latency"
    /\ Warmup(BenchmarkLatencyPrologue, "timing_cuda")
    /\ UNCHANGED <<args, env, batch_sizes, prompt_lengths, new_tokens,
                   tokenizer_loaded, model_loaded, task, is_decoder, autoclass,
                   act_order, bits, group_size, kernel, load_time, file_name,
                   bi, pi, ni, max_mem, latencies_ms, mean_latency,
                   peak_nvml_mb>>

\* lines 87-93: timing_cuda before its loop; generation_config is None for a
\* configuration that does not generate, and reading its attribute raises
TimingCudaEnter ==
    /\ pc = "timing_cuda"
    /\ IF gen_config = None
       THEN /\ ops' = ops \o <<"enter:timing_cuda">>
            /\ Raise("AttributeError: NoneType has no attribute min_new_tokens")
            /\ UNCHANGED latencies_ms
       ELSE IF gen_config[1].min_new_tokens # gen_config[1].max_new_tokens
       THEN /\ ops' = ops \o <<"enter:timing_cuda">>
            /\ Raise("AssertionError: min_new_tokens")
            /\ UNCHANGED latencies_ms
       ELSE /\ ops' = ops \o <<"enter:timing_cuda", "synchronize">>
            /\ latencies_ms' = <<>>
            /\ pc' = "timing_loop"
            /\ UNCHANGED <<error, disk, out_buffer, output_open>>
    /\ UNCHANGED <<args, env, batch_sizes, prompt_lengths, new_tokens,
                   tokenizer_loaded, model_loaded, task, is_decoder, autoclass,
                   act_order, bits, group_size, kernel, load_time, file_name,
                   bi, pi, ni, gen_config, res_len, max_mem, mean_latency,
                   peak_allocated, peak_reserved, peak_nvml_mb>>

\* TimedIntervalOps without the synchronize that follows end_event.record
TimedIntervalOps_NoClosingSync ==
    <<"synchronize", "start_event.record", CallOp, "end_event.record",
      "elapsed_time">>

\* lines 95-107: what one repetition issues to the device
TimedIntervalOps ==
    <<"synchronize", "start_event.record", CallOp, "end_event.record",
      "synchronize", "elapsed_time">>

\* lines 94-109: one repetition of the timed loop; line 108 divides the
\* latency, a Python float, by min_new_tokens before the latency is recorded
TimingCudaIteration ==
    /\ pc = "timing_loop"
    /\ Len(latencies_ms) < args.num_batches
    /\ \E u \in PeakUsages, latency_ms \in ElapsedMs :
         /\ ModelCall(u)
         /\ ops' = ops \o TimedIntervalOps
         /\ IF gen_config[1].min_new_tokens = 0
            THEN /\ Raise("ZeroDivisionError: float division by zero")
                 /\ UNCHANGED latencies_ms
            ELSE /\ latencies_ms' = Append(latencies_ms, latency_ms)
                 /\ UNCHANGED <<pc, error, disk, out_buffer, output_open>>
    /\ UNCHANGED <<args, env, batch_sizes, prompt_lengths,
                   new_tokens, tokenizer_loaded, model_loaded, task, is_decoder,
                   autoclass, act_order, bits, group_size, kernel, load_time,
                   file_name, bi, pi, ni, gen_config,
                   res_len, max_mem, mean_latency, peak_nvml_mb>>

\* lines 111 and 168-170: the mean is returned through benchmark_latency
TimingCudaReturn ==
    /\ pc = "timing_loop"
    /\ Len(latencies_ms) >= args.num_batches
    /\ mean_latency' = Some(Mean(latencies_ms))
    /\ pc' = "emit_row"
    /\ UNCHANGED <<args, env, disk, error, batch_sizes, prompt_lengths, new_tokens,
                   tokenizer_loaded, model_loaded, task, is_decoder, autoclass,
                   act_order, bits, group_size, kernel, load_time, file_name,
                   output_open, out_buffer, bi, pi, ni, gen_config, res_len, max_mem,
                   latencies_ms, peak_allocated, peak_reserved, peak_nvml_mb, ops>>

\* lines 351-353: the positions of the three for loops after one more body
NextPosition ==
    IF ni < Len(new_tokens) THEN <<bi, pi, ni + 1>>
    ELSE IF pi < Len(prompt_lengths) THEN <<bi, pi + 1, 1>>
    ELSE <<bi + 1, 1, 1>>

\* lines 385-415: the derived figures and the row of the combination
EmitRow ==
    /\ pc = "emit_row"
    /\ out_buffer' = Append(out_buffer, Line(CurBatch, CurPrompt, CurNew))
    /\ bi' = NextPosition[1]
    /\ pi' = NextPosition[2]
    /\ ni' = NextPosition[3]
    /\ pc' = "loop"
    /\ UNCHANGED <<args, env, disk, error, batch_sizes, prompt_lengths, new_tokens,
                   tokenizer_loaded, model_loaded, task, is_decoder, autoclass,
                   act_order, bits, group_size, kernel, load_time, file_name,
                   output_open, gen_config, res_len, max_mem, latencies_ms, mean_latency,
                   peak_allocated, peak_reserved, peak_nvml_mb, ops>>

\* line 417: the loops are exhausted, output_file.close()
CloseOutputFile ==
    /\ pc = "loop"
    /\ bi > Len(batch_sizes)
    /\ disk' = Flushed
    /\ out_buffer' = <<>>
    /\ output_open' = FALSE
    /\ pc' = "done"
    /\ UNCHANGED <<args, env, error, batch_sizes, prompt_lengths, new_tokens,
                   tokenizer_loaded, model_loaded, task, is_decoder, autoclass,
                   act_order, bits, group_size, kernel, load_time, file_name,
                   bi, pi, ni, gen_config, res_len, max_mem, latencies_ms, mean_latency,
                   peak_allocated, peak_reserved, peak_nvml_mb, ops>>

Next ==
    \/ SelectGrid
    \/ CheckDevices
    \/ LoadTokenizer
    \/ CheckGptqModel
    \/ LoadModel
    \/ OpenOutputFile
    \/ BeginCombination
    \/ BenchmarkMemoryWarmup
    \/ BenchmarkMemoryMeasure
    \/ BenchmarkLatencyWarmup
    \/ TimingCudaEnter
    \/ TimingCudaIteration
    \/ TimingCudaReturn
    \/ EmitRow
    \/ CloseOutputFile

Spec == Init /\ [][Next]_vars

(***************************************************************************)
(* Vocabulary of the properties.                                           *)
(***************************************************************************)
\* the lines of a file, <<>> if it does not exist
Lines(name) == IF disk[name] = None THEN <<>> ELSE disk[name][1]

\* the log file this run writes
LogName == FileName(args)

\* the lines of the log this run has opened, <<>> before it is opened
LogLines == IF file_name = "" THEN <<>> ELSE Lines(file_name)

Terminated == pc \in {"done", "aborted"}

\* number of combinations of the grid
GridSize == Len(batch_sizes) * Len(prompt_lengths) * Len(new_tokens)

\* number of combinations whose loop body has run to its end
Completed ==
    (bi - 1) * Len(prompt_lengths) * Len(new_tokens)
        + (pi - 1) * Len(new_tokens) + (ni - 1)

\* the k-th combination in the order of the three nested loops
ComboAt(k) ==
    LET pn == Len(prompt_lengths) * Len(new_tokens) IN
    <<batch_sizes[(k - 1) \div pn + 1],
      prompt_lengths[((k - 1) % pn) \div Len(new_tokens) + 1],
      new_tokens[((k - 1) % Len(new_tokens)) + 1]>>

\* the line is a row of 13 fields about combination c
RowIsFor(line, c) ==
    /\ Len(line) = 13
    /\ line[7] = ToString(c[1])
    /\ line[8] = ToString(c[2])
    /\ line[9] = ToString(c[3])

\* the loop body of a combination has begun and has not run to its end
InBody ==
    \/ pc \in {"benchmark_memory", "memory_measure", "benchmark_latency",
               "timing_cuda", "timing_loop", "emit_row"}
    \/ /\ pc = "aborted"
       /\ Len(ops) >= 2
       /\ ops[1] = "empty_cache"
       /\ ops[2] = "reset_peak_memory_stats"

\* the file holds the header and then the rows of the first n combinations
HoldsHeaderAndRows(lines, n) ==
    /\ Len(lines) = n + 1
    /\ lines[1] = Header
    /\ \A k \in 1..n : RowIsFor(lines[k + 1], ComboAt(k))

(***************************************************************************)
(* C1: when the script runs to its end, the log holds the header and then  *)
(* exactly one row for every combination of the grid: as many data rows as *)
(* combinations, none without a row, none with two.                        *)
(***************************************************************************)
C1_OneRowPerCombination ==
    pc = "done" =>
        LET lines == LogLines IN
        /\ Len(lines) = GridSize + 1
        /\ lines[1] = Header
        /\ \A k \in 1..GridSize :
             Cardinality({r \in 2..Len(lines) : RowIsFor(lines[r], ComboAt(k))}) = 1

\* a sweep has run to its end and left its five rows
C1_Witness == pc = "done" /\ args.sweep /\ Len(LogLines) = 6

(***************************************************************************)
(* C2: the grid depends on the flags alone.  With --sweep the batch sizes  *)
(* are 1,2,4,8,16 and the prompt length 512 whatever the command line      *)
(* says, else the command line's values; the new-token count is 1 with     *)
(* --prefill, else 512 with --sweep, else the command line's value.        *)
(***************************************************************************)
C2_GridFromFlags ==
    pc # "select_grid" =>
        /\ batch_sizes = IF args.sweep THEN <<1, 2, 4, 8, 16>>
                         ELSE <<args.batch_size>>
        /\ prompt_lengths = IF args.sweep THEN <<512>> ELSE <<args.prompt_length>>
        /\ new_tokens = IF args.prefill THEN <<1>>
                        ELSE IF args.sweep THEN <<512>>
                        ELSE <<args.new_tokens>>

\* --sweep and --prefill together: the sweep's batch sizes, one new token
C2_Witness ==
    /\ pc = "loop"
    /\ args.sweep /\ args.prefill
    /\ batch_sizes = <<1, 2, 4, 8, 16>>
    /\ new_tokens = <<1>>

(***************************************************************************)
(* C3 as stated: when a generative warmup returns a sequence of the wrong  *)
(* length, the run aborts before any row is written to the log, in the     *)
(* second and later combinations of a sweep too.                           *)
(***************************************************************************)
C3_NoRowAtAllOnWarmupMismatch ==
    error = "AssertionError: warmup length" => Len(LogLines) <= 1

(***************************************************************************)
(* C3 amended: when a generative warmup returns a sequence of the wrong    *)
(* length, the run aborts at once, before the row of that combination or   *)
(* of any later one is written; the log then holds the header and the rows *)
(* of the combinations completed before it.                                *)
(***************************************************************************)
C3_WarmupMismatchAborts ==
    (InBody /\ is_decoder /\ res_len # None
        /\ res_len[1] # CurPrompt + CurNew) =>
        /\ pc = "aborted"
        /\ error = "AssertionError: warmup length"
        /\ HoldsHeaderAndRows(LogLines, Completed)

\* the warmup of the third combination of a sweep returned a wrong length
C3_Witness ==
    /\ error = "AssertionError: warmup length"
    /\ res_len # None /\ res_len[1] # CurPrompt + CurNew
    /\ bi = 3
    /\ Len(LogLines) = 3

(***************************************************************************)
(* C4 as stated: every combination that begins its RESET COUNTERS step     *)
(* reaches EMIT_ROW and writes its row; none is started and left without   *)
(* a row.  At the end of a run, the log holds a row for every combination  *)
(* that was started.                                                       *)
(***************************************************************************)
C4_EveryStartedCombinationHasRow ==
    (Terminated /\ file_name # "") =>
        HoldsHeaderAndRows(LogLines, Completed + (IF InBody THEN 1 ELSE 0))

\* everything written to the log so far, flushed or not
Written == LogLines \o out_buffer

\* positions whose step depends on nothing but the position (the two steps of
\* timing_loop take the two sides of one comparison)
UnconditionalPositions == {"memory_measure", "timing_loop", "emit_row"}

(***************************************************************************)
(* C4 amended: every combination that begins its RESET COUNTERS step       *)
(* either reaches EMIT_ROW and writes its complete row, or the run is      *)
(* ended inside it by an uncaught exception and it has no row; the script  *)
(* never stops anywhere else, and no partially filled row is ever written. *)
(***************************************************************************)
C4_RowOrAbort ==
    /\ LET written == Written IN
       /\ \A r \in 2..Len(written) :
            Len(written[r]) = 13 /\ \A f \in 1..13 : written[r][f] # ""
       /\ file_name # "" => HoldsHeaderAndRows(written, Completed)
    /\ (Terminated /\ file_name # "") =>
         /\ HoldsHeaderAndRows(LogLines, Completed)
         /\ InBody => (pc = "aborted" /\ error # "")
         /\ pc = "done" => Completed = GridSize
    /\ ~Terminated => (pc \in UnconditionalPositions \/ ENABLED Next)

\* the second combination of a sweep was started and the run ended in it:
\* one complete row, none for the second combination
C4_Witness ==
    /\ pc = "aborted" /\ InBody
    /\ error = "AssertionError: peak external"
    /\ Completed = 1
    /\ Len(LogLines) = 2

(***************************************************************************)
(* Order of the operations issued to the device within one combination.    *)
(***************************************************************************)
IsCall(o) == o \in {"generate", "forward"}

Positions(o) == {i \in 1..Len(ops) : ops[i] = o}

\* the first model call after position m
FirstCallAfter(m) ==
    CHOOSE i \in (m + 1)..Len(ops) :
        IsCall(ops[i]) /\ \A j \in (m + 1)..(i - 1) : ~IsCall(ops[j])

\* operation o was issued before position i with no model call in between
FreshAt(i, o) ==
    \E j \in 1..(i - 1) : ops[j] = o /\ \A k \in (j + 1)..(i - 1) : ~IsCall(ops[k])

(***************************************************************************)
(* C5 as stated: before the first model call of the memory sub-benchmark   *)
(* and again before the first model call of the latency sub-benchmark, the *)
(* peak-memory counters have been reset and the allocator cache cleared,   *)
(* with no model call in between.                                          *)
(***************************************************************************)
C5_BothStartClean ==
    \A m \in Positions("enter:benchmark_memory") \cup Positions("enter:benchmark_latency") :
        /\ FreshAt(FirstCallAfter(m), "reset_peak_memory_stats")
        /\ FreshAt(FirstCallAfter(m), "empty_cache")

(***************************************************************************)
(* What the code does instead of C5: before the first model call of the    *)
(* memory sub-benchmark the peak-memory counters have been reset and the   *)
(* allocator cache cleared, with no model call in between; before the      *)
(* first model call of the latency sub-benchmark only the cache has been   *)
(* cleared: the counters are reset once per combination, at the top of the *)
(* loop body, and the model calls of the memory sub-benchmark lie between  *)
(* that reset and the latency sub-benchmark.                               *)
(***************************************************************************)
C5_CacheClearedCountersResetOnce ==
    /\ \A m \in Positions("enter:benchmark_memory") :
         /\ FreshAt(FirstCallAfter(m), "reset_peak_memory_stats")
         /\ FreshAt(FirstCallAfter(m), "empty_cache")
    /\ \A m \in Positions("enter:benchmark_latency") :
         /\ FreshAt(FirstCallAfter(m), "empty_cache")
         /\ ~FreshAt(FirstCallAfter(m), "reset_peak_memory_stats")
    /\ InBody => Positions("reset_peak_memory_stats") = {2}

\* the latency sub-benchmark has made its first model call
C5_LatencyWarmupDone ==
    /\ pc = "timing_cuda"
    /\ Positions("enter:benchmark_latency") # {}
    /\ Positions("enter:benchmark_memory") # {}

(***************************************************************************)
(* C6: the fatal checks come before any model is loaded.  Without an       *)
(* accelerator, or with a device-visibility variable that does not name    *)
(* exactly one device, the run aborts with neither tokenizer nor model     *)
(* loaded; with --gptq and no --gptq-model it aborts with no model loaded. *)
(***************************************************************************)
\* the variable is set and holds one non-empty token
NamesOneDevice(v) ==
    /\ v # None
    /\ v[1] # <<>>
    /\ \A i \in 1..Len(v[1]) : v[1][i] # ","

C6_FatalChecksBeforeLoading ==
    /\ (~env.cuda_available \/ ~NamesOneDevice(env.CUDA_VISIBLE_DEVICES)) =>
         /\ ~tokenizer_loaded /\ ~model_loaded
         /\ pc \in {"select_grid", "check_devices", "aborted"}
    /\ (args.gptq /\ args.gptq_model \in {None, Some("")}) =>
         /\ ~model_loaded
         /\ pc \in {"select_grid", "check_devices", "load_tokenizer",
                    "check_gptq", "aborted"}

\* --gptq without --gptq-model: aborted after the tokenizer, before the model
C6_Witness ==
    /\ pc = "aborted"
    /\ error = "ValueError: --gptq-model needs to be provided"
    /\ args.gptq /\ args.gptq_model = None
    /\ tokenizer_loaded /\ ~model_loaded

(***************************************************************************)
(* C7: benchmark_memory returns allocated peak + (driver peak - reserved   *)
(* peak), and only after asserting that driver peak - reserved peak is     *)
(* strictly positive: otherwise the call aborts, so every peak memory it   *)
(* reports is strictly positive.                                           *)
(***************************************************************************)
\* the three samples in MB, as binary64 values
AllocatedMb == F64Mul(F64FromInt(peak_allocated), F64_1e_6)
ReservedMb == F64Mul(F64FromInt(peak_reserved), F64_1e_6)
DriverMb == F64FromInt(peak_nvml_mb[1])

C7_PeakMemoryDerivation ==
    /\ pc = "benchmark_latency" =>
         /\ max_mem = Some(F64Add(AllocatedMb, F64Sub(DriverMb, ReservedMb)))
         /\ F64Positive(F64Sub(DriverMb, ReservedMb))
         /\ F64Positive(max_mem[1])
    /\ (InBody /\ ops[Len(ops)] = "memory_stats"
            /\ ~F64Positive(F64Sub(DriverMb, ReservedMb))) =>
         /\ pc = "aborted"
         /\ error = "AssertionError: peak external"
    /\ pc = "emit_row" => F64Positive(max_mem[1])

\* benchmark_memory has returned 2.5 + (5 - 3) MB
C7_Witness ==
    /\ pc = "benchmark_latency"
    /\ peak_allocated = 2500000 /\ peak_reserved = 3000000
    /\ peak_nvml_mb = Some(5)
    /\ Fmt2(max_mem[1]) = "4.50"

(***************************************************************************)
(* C8 as stated: for every configuration, generative or not, the latency   *)
(* sub-benchmark makes exactly one untimed warmup call, then exactly       *)
(* num_batches timed calls, and returns the mean of the num_batches        *)
(* recorded latencies.                                                     *)
(***************************************************************************)
\* number of model calls issued at the positions of the set
Calls(positions) == Cardinality({i \in positions : IsCall(ops[i])})

LatencyBenchmarkDone(t) ==
    /\ \E m \in Positions("enter:benchmark_latency") : Calls(m..t) = 1
    /\ Calls(t..Len(ops)) = args.num_batches
    /\ Len(latencies_ms) = args.num_batches
    /\ mean_latency = Some(Mean(latencies_ms))

C8_LatencyBenchmarkCompletes ==
    \A t \in Positions("enter:timing_cuda") :
        pc # "timing_loop" => LatencyBenchmarkDone(t)

\* the same for the configurations that generate at least one new token
C8_GenerativeLatencyBenchmarkCompletes ==
    \A t \in Positions("enter:timing_cuda") :
        (is_decoder /\ gen_config[1].min_new_tokens > 0 /\ pc # "timing_loop")
            => LatencyBenchmarkDone(t)

(***************************************************************************)
(* C9: in timing_cuda every timed interval is bracketed by device drains.  *)
(* A synchronize comes right before the start marker and right after the   *)
(* end marker, exactly one model call lies between the markers, the        *)
(* elapsed time is read after the closing synchronize, and so the          *)
(* intervals of different repetitions never overlap.                       *)
(***************************************************************************)
C9_TimedIntervalsBracketed ==
    /\ \A i \in 1..Len(ops) :
         /\ ops[i] = "start_event.record" =>
              /\ i > 1 /\ ops[i - 1] = "synchronize"
              /\ i + 4 <= Len(ops)
              /\ IsCall(ops[i + 1])
              /\ ops[i + 2] = "end_event.record"
              /\ ops[i + 3] = "synchronize"
              /\ ops[i + 4] = "elapsed_time"
         /\ ops[i] = "end_event.record" => (i > 2 /\ ops[i - 2] = "start_event.record")
         /\ ops[i] = "elapsed_time" => (i > 4 /\ ops[i - 4] = "start_event.record")
    /\ \A t \in Positions("enter:timing_cuda") :
         \A i \in (t + 1)..Len(ops) : IsCall(ops[i]) => ops[i - 1] = "start_event.record"
    /\ pc = "timing_loop" =>
         Cardinality(Positions("start_event.record")) = Len(latencies_ms)

\* two repetitions have been timed
C9_Witness ==
    /\ pc = "timing_loop"
    /\ Cardinality(Positions("start_event.record")) = 2
    /\ Len(latencies_ms) = 2

(***************************************************************************)
(* C10: the log is opened, truncated and given its header only after the   *)
(* accelerator check, the device-count check, the --gptq-model check and   *)
(* the model load have succeeded.  A run that aborts on one of the three   *)
(* checks leaves an existing log of the same name as it was and creates no *)
(* file; a run that aborts later leaves the header and the rows of the     *)
(* combinations completed before the abort.                                *)
(***************************************************************************)
CheckErrors ==
    {"ValueError: A cuda device is necessary", "ValueError: single device index",
     "ValueError: --gptq-model needs to be provided"}

C10_LogOpenedAfterChecksAndLoad ==
    /\ file_name = "" => disk = [n \in FileNames |-> env.existing_log]
    /\ file_name # "" =>
         /\ file_name = LogName
         /\ model_loaded
         /\ env.cuda_available /\ NamesOneDevice(env.CUDA_VISIBLE_DEVICES)
         /\ args.gptq => args.gptq_model \notin {None, Some("")}
         /\ \A n \in FileNames \ {LogName} : disk[n] = env.existing_log
    /\ error \in CheckErrors =>
         /\ pc = "aborted" /\ file_name = ""
         /\ disk[LogName] = env.existing_log
    /\ (pc = "aborted" /\ file_name # "") =>
         HoldsHeaderAndRows(Lines(LogName), Completed)

\* an old log existed; the run aborted in the third combination of a sweep
C10_Witness ==
    /\ pc = "aborted" /\ file_name # ""
    /\ env.existing_log # None
    /\ Completed = 2
    /\ Len(Lines(LogName)) = 3

====
